---- MODULE Spec2Model ----
(***************************************************************************)
(* A model of the OCR orchestration core of pdf-ocr:                       *)
(*   - OCREngine.batch_extract_text   (ocr_engine.py)  the batch pool      *)
(*   - OCREngine.extract_text_from_image, validate_language, _clean_text   *)
(*   - PDFOCRTool._parse_page_range   (main.py)                            *)
(*   - OCREngine.get_ocr_statistics, extract_text_with_layout              *)
(*   - PDFProcessor.optimize_image_for_ocr   (pdf_processor.py)            *)
(*   - main and the dependency checks of PDFOCRTool()   (main.py)          *)
(* Texts are sequences of one-character strings, language tags are the     *)
(* sequences of their '+'-separated codes, confidences are kept in         *)
(* hundredths (the code rounds them to two decimals).                      *)
(***************************************************************************)
EXTENDS Integers, Sequences, FiniteSets, TLC

VARIABLES
    \* ---- batch_extract_text: arguments and configuration
    images,          \* the list of page bitmaps
    language,        \* the language argument (NoneLang when omitted)
    show_progress,   \* the show_progress argument
    cfg_max_workers, \* config.max_workers
    installed,       \* what pytesseract.get_languages() returns in this run
    \* ---- batch_extract_text: locals and the executor
    pc,              \* position of the calling thread
    executor,        \* the ThreadPoolExecutor of this call
    submitted,       \* number of tasks submitted so far (the enumerate index)
    future,          \* state of the future of each index
    outcome,         \* what each finished future holds
    collected,       \* indices as_completed has already yielded
    yieldOrder,      \* the same indices, in the order as_completed yielded them
    completed,       \* the local counter `completed`
    results,         \* the local list `results`
    returned,        \* the value the call returned
    \* ---- observations of side effects
    progress,        \* the calls of print_progress_bar, in order
    writes,          \* number of assignments to each slot of results
    engineRuns,      \* number of recognitions run for each index
    \* ---- _parse_page_range
    page_range,      \* the page_range argument
    total_pages,     \* the total_pages argument
    rangeOut,        \* the outcome of the call
    \* ---- extract_text_from_image (one page)
    reqLang,         \* the language argument
    langAvail,       \* the language packs pytesseract.get_languages() lists
    lookupFailed,    \* whether the lookup raised inside get_available_languages
    pageImage,       \* the bitmap
    pageOut,         \* the outcome of the call
    engineLangs,     \* the lang argument of every engine call made
    \* ---- _clean_text
    rawText,         \* the text argument
    cleanPc,         \* "start", "once" (cleaned), "twice" (the result cleaned again)
    cleanOnce,       \* _clean_text(text)
    cleanTwice,      \* _clean_text(_clean_text(text))
    \* ---- get_ocr_statistics and _print_statistics
    statResults,     \* the list of page results
    statThreshold,   \* self.confidence_threshold, in hundredths
    statPc,          \* "call", "returned", "printed"
    statsOut,        \* the dict get_ocr_statistics returned
    statsShown,      \* the values _print_statistics read from it
    \* ---- the success rate of get_ocr_statistics, by counts
    rateTotal,       \* len(results)
    rateErrors,      \* len(error_pages)
    ratePc,          \* "call", "returned"
    rateOut,         \* the success_rate entry, in hundredths
    \* ---- extract_text_with_layout
    layData,         \* the tokens pytesseract.image_to_data reported
    layThreshold,    \* self.confidence_threshold
    layPc,           \* "call", "done"
    layOut,          \* the outcome of the call
    \* ---- optimize_image_for_ocr
    optImage,        \* the image argument
    optPc,           \* "call", "done"
    optOut,          \* the image the call returned
    \* ---- main and PDFOCRTool.__init__
    poppler,         \* whether pdfinfo and pdftoppm are on the PATH
    tesseract,       \* "ok", "missing" or "broken" (found, but it cannot be run)
    argv,            \* the parsed command line
    mainPc,          \* position in main
    exitStatus,      \* the value main returned
    cfgThreshold,    \* config.confidence_threshold
    engineThreshold, \* OCREngine.confidence_threshold
    steps,           \* the page-processing steps of process_pdf taken so far
    docPages,        \* pdf_info['total_pages'] of the input file (0: no file is read)
    pageSel,         \* page_range_tuple, what _parse_page_range returned
    rendered,        \* the document page numbers of the images, in list order
    mainResults,     \* ocr_results of process_pdf
    mainStats,       \* what get_ocr_statistics returned to _print_statistics
    reportLow,       \* low_confidence_pages of create_summary_report
    \* ---- the confidence of a page
    confData,        \* data['conf'] of image_to_data, as integers
    confPc,          \* "call", "done"
    confOut          \* result['confidence'], in hundredths

batchVars == <<images, language, show_progress, cfg_max_workers, installed, pc,
               executor, submitted, future, outcome, collected, yieldOrder,
               completed, results, returned, progress, writes, engineRuns>>
rangeVars == <<page_range, total_pages, rangeOut>>
langVars == <<reqLang, langAvail, lookupFailed, pageImage, pageOut, engineLangs>>
cleanVars == <<rawText, cleanPc, cleanOnce, cleanTwice>>
statVars == <<statResults, statThreshold, statPc, statsOut, statsShown>>
rateVars == <<rateTotal, rateErrors, ratePc, rateOut>>
layoutVars == <<layData, layThreshold, layPc, layOut>>
optVars == <<optImage, optPc, optOut>>
procVars == <<docPages, pageSel, rendered, mainResults, mainStats, reportLow>>
mainVars == <<poppler, tesseract, argv, mainPc, exitStatus, cfgThreshold,
              engineThreshold, steps, procVars>>
coreVars == <<batchVars, rangeVars, langVars, cleanVars>>
confVars == <<confData, confPc, confOut>>
vars == <<coreVars, statVars, rateVars, layoutVars, optVars, mainVars, confVars>>

-----------------------------------------------------------------------------
(* Bounds of the model *)

\* longest list of page bitmaps handed to batch_extract_text
MaxPages == 3
\* largest configured processing.max_workers
MaxConfigWorkers == 2
\* longest page-range string
MaxRangeLen == 4
\* largest total_pages
MaxTotalPages == 3
\* longest text given to _clean_text
MaxTextLen == 4
\* longest requested language tag, in codes
MaxLangCodes == 2

-----------------------------------------------------------------------------
(* Small helpers *)

Min(a, b) == IF a < b THEN a ELSE b
Max(a, b) == IF a > b THEN a ELSE b
Abs(a) == IF a < 0 THEN -a ELSE a

\* all sequences over S of length at most n
SeqsUpTo(S, n) == UNION {[1..k -> S] : k \in 0..n}

RECURSIVE SumSeq(_)
SumSeq(s) == IF s = <<>> THEN 0 ELSE Head(s) + SumSeq(Tail(s))

-----------------------------------------------------------------------------
(* Text: str operations used by the code, on sequences of characters *)

\* the whitespace characters of the model's alphabet (str.isspace, re's \s)
Whitespace == {" ", "\t", "\n"}
TextChars == Whitespace \cup {"a", "b"}

isspace(c) == c \in Whitespace

\* str.lstrip()
RECURSIVE lstrip(_)
lstrip(t) ==
    IF t # <<>> /\ isspace(Head(t)) THEN lstrip(Tail(t)) ELSE t

\* str.rstrip()
RECURSIVE rstrip(_)
rstrip(t) ==
    IF t # <<>> /\ isspace(t[Len(t)]) THEN rstrip(SubSeq(t, 1, Len(t) - 1)) ELSE t

\* a plausible slip: only the left end is stripped
strip_left_only(t) == lstrip(t)

\* str.strip()
strip(t) == rstrip(lstrip(t))

\* re.sub(r'\s+', ' ', text): every maximal whitespace run becomes one space
RECURSIVE re_sub_whitespace(_)
re_sub_whitespace(t) ==
    IF t = <<>> THEN <<>>
    ELSE IF isspace(Head(t)) THEN <<" ">> \o re_sub_whitespace(lstrip(Tail(t)))
    ELSE <<Head(t)>> \o re_sub_whitespace(Tail(t))

\* the longest prefix of t without whitespace
RECURSIVE first_word(_)
first_word(t) ==
    IF t = <<>> \/ isspace(Head(t)) THEN <<>> ELSE <<Head(t)>> \o first_word(Tail(t))

\* str.split(): the words between whitespace runs, empty strings dropped
RECURSIVE split(_)
split(t) ==
    LET s == lstrip(t) IN
    IF s = <<>> THEN <<>>
    ELSE LET w == first_word(s) IN <<w>> \o split(SubSeq(s, Len(w) + 1, Len(s)))

\* sep.join(parts) for texts
RECURSIVE join(_, _)
join(sep, parts) ==
    IF parts = <<>> THEN <<>>
    ELSE IF Len(parts) = 1 THEN Head(parts)
    ELSE Head(parts) \o sep \o join(sep, Tail(parts))

\* OCREngine._clean_text
_clean_text(text) ==
    IF text = <<>> THEN <<>>
    ELSE strip(re_sub_whitespace(text))

-----------------------------------------------------------------------------
(* PDFOCRTool._parse_page_range *)

Digits == <<"0", "1", "2", "3", "4", "5", "6", "7", "8", "9">>
DigitChars == {Digits[i] : i \in 1..Len(Digits)}
DigitValue(c) == (CHOOSE i \in 1..Len(Digits) : Digits[i] = c) - 1

\* the characters page-range strings are drawn from
RangeChars == {"0", "1", "3", "5", "-", "+", "x"}

\* an optional argument: None, or a string
NoneArg == [isNone |-> TRUE]
Str(s) == [isNone |-> FALSE, s |-> s]

\* Python truthiness of an optional string: None and "" are false
truthy(arg) == ~arg.isNone /\ arg.s # <<>>

\* the exception int() raises for text that is no integer literal
IntError == "ValueError"
\* the exception unpacking raises when there are not exactly two values
UnpackError == "ValueError"

Value(v) == [ok |-> TRUE, val |-> v]
Raise(e) == [ok |-> FALSE, exc |-> e]

RECURSIVE digits_value(_, _)
digits_value(s, acc) ==
    IF s = <<>> THEN acc ELSE digits_value(Tail(s), 10 * acc + DigitValue(Head(s)))

\* int(s) for a str: surrounding whitespace ignored, one optional sign, then digits
int(s) ==
    LET t == strip(s)
        signed == t # <<>> /\ Head(t) \in {"+", "-"}
        d == IF signed THEN Tail(t) ELSE t
    IN  IF d # <<>> /\ \A i \in 1..Len(d) : d[i] \in DigitChars
        THEN Value(IF signed /\ Head(t) = "-" THEN 0 - digits_value(d, 0)
                   ELSE digits_value(d, 0))
        ELSE Raise(IntError)

\* s.split(sep) for a one-character separator: always at least one part
RECURSIVE split_on(_, _)
split_on(s, sep) ==
    IF \A i \in 1..Len(s) : s[i] # sep THEN <<s>>
    ELSE LET k == CHOOSE i \in 1..Len(s) : s[i] = sep /\ \A j \in 1..(i - 1) : s[j] # sep
         IN <<SubSeq(s, 1, k - 1)>> \o split_on(SubSeq(s, k + 1, Len(s)), sep)

\* start, end = map(int, parts): the parts are converted one by one as the
\* unpacking asks for them; a third part is converted before "too many values"
unpack_two_ints(parts) ==
    LET a == int(parts[1]) IN
    IF ~a.ok THEN a
    ELSE IF Len(parts) < 2 THEN Raise(UnpackError)
    ELSE LET b == int(parts[2]) IN
         IF ~b.ok THEN b
         ELSE IF Len(parts) > 2
              THEN (LET c == int(parts[3]) IN IF ~c.ok THEN c ELSE Raise(UnpackError))
              ELSE Value(<<a.val, b.val>>)

\* a plausible slip: the two clamps exchanged
parse_body_clamps_swapped(s, tp) ==
    IF \E i \in 1..Len(s) : s[i] = "-"
    THEN LET u == unpack_two_ints(split_on(s, "-")) IN
         IF ~u.ok THEN u
         ELSE Value(<<Min(tp, u.val[1]), Max(1, u.val[2])>>)
    ELSE LET p == int(s) IN
         IF ~p.ok THEN p
         ELSE LET page == Min(tp, Max(1, p.val)) IN Value(<<page, page>>)

\* the body of the try block, lines 188-196
parse_body(s, tp) ==
    IF \E i \in 1..Len(s) : s[i] = "-"
    THEN LET u == unpack_two_ints(split_on(s, "-")) IN
         IF ~u.ok THEN u
         ELSE Value(<<Max(1, u.val[1]), Min(tp, u.val[2])>>)
    ELSE LET p == int(s) IN
         IF ~p.ok THEN p
         ELSE LET page == Max(1, Min(tp, p.val)) IN Value(<<page, page>>)

\* a plausible slip: the handler names another exception class
except_TypeError(exc) == exc = "TypeError"

\* `except ValueError`: the exceptions the handler of line 197 catches
except_ValueError(exc) == exc = "ValueError"

RangeNone(warned) == [kind |-> "None", warned |-> warned]
RangeTuple(start, end) == [kind |-> "tuple", start |-> start, end |-> end]
RangeRaised(exc) == [kind |-> "raised", exc |-> exc]
RangePending == [kind |-> "pending"]

_parse_page_range(arg, tp) ==
    IF ~truthy(arg) THEN RangeNone(FALSE)
    ELSE LET r == parse_body(arg.s, tp) IN
         IF r.ok THEN RangeTuple(r.val[1], r.val[2])
         ELSE IF except_ValueError(r.exc) THEN RangeNone(TRUE)
         ELSE RangeRaised(r.exc)

-----------------------------------------------------------------------------
(* OCREngine: languages *)

\* language codes; "" is the empty code of a tag such as "eng+" or ""
LangCodes == {"eng", "chi_sim", "fra", ""}
\* the codes a language pack can exist for
PackCodes == {"eng", "chi_sim", "fra"}

\* a language tag is the sequence of its '+'-separated codes (language.split('+'));
\* the empty sequence, which no string splits into, stands for None
NoneLang == <<>>
LangTags(n) == UNION {[1..k -> LangCodes] : k \in 1..n}

\* config.ocr_language, read into self.language by __init__
self_language == <<"chi_sim", "eng">>

\* '+' in language
has_plus(tag) == Len(tag) > 1

\* OCREngine.get_available_languages: the list of the engine, [] when the lookup raises
get_available_languages(packs, failed) == IF failed THEN {} ELSE packs

\* a plausible slip: any() where all() is meant
validate_language_any(tag, avail) ==
    IF has_plus(tag) THEN \E i \in 1..Len(tag) : tag[i] \in avail
    ELSE tag[1] \in avail

\* OCREngine.validate_language
validate_language(tag, avail) ==
    IF has_plus(tag) THEN \A i \in 1..Len(tag) : tag[i] \in avail
    ELSE tag[1] \in avail

\* [lang for lang in language.split('+') if lang in available_langs]
valid_langs(tag, avail) == SelectSeq(tag, LAMBDA c : c \in avail)

\* extract_text_from_image, lines 207-222: the language the engine is called with
effective_language(arg, avail) ==
    LET lang == IF arg = NoneLang THEN self_language ELSE arg IN
    IF validate_language(lang, avail) THEN lang
    ELSE IF has_plus(lang)
         THEN (IF valid_langs(lang, avail) # <<>> THEN valid_langs(lang, avail)
               ELSE <<"eng">>)
         ELSE <<"eng">>

-----------------------------------------------------------------------------
(* OCREngine.extract_text_from_image: the engine and the result *)

\* the page bitmaps of the model; the engine's answer depends on the bitmap only
Bitmaps == {"words", "blank"}

\* pytesseract.image_to_string(image, ...)
image_to_string(img) ==
    IF img = "words" THEN <<" ", "a", "\t", " ", "b", "\n">> ELSE <<"\n">>

\* pytesseract.image_to_data(image, ...)['conf']
image_to_data_conf(img) ==
    IF img = "words" THEN <<-1, 90, 0, 71>> ELSE <<-1>>

\* round(x, 2) of the quotient total / n, in hundredths
round2(total, n) == (200 * total + n) \div (2 * n)

\* the mean of the confidences above 0
avg_confidence_positive(conf) ==
    LET confidences == SelectSeq(conf, LAMBDA c : c > 0) IN
    IF confidences # <<>> THEN round2(SumSeq(confidences), Len(confidences)) ELSE 0

\* lines 249-250: the mean of the confidences above -1, 0 when there is none
avg_confidence(conf) ==
    LET confidences == SelectSeq(conf, LAMBDA c : c > -1) IN
    IF confidences # <<>> THEN round2(SumSeq(confidences), Len(confidences)) ELSE 0

\* lines 257-267: the result of a recognition that did not raise
ocr_result(img, lang) ==
    LET text == image_to_string(img)
        cleaned_text == _clean_text(text)
    IN  [text |-> cleaned_text,
         raw_text |-> text,
         confidence |-> avg_confidence(image_to_data_conf(img)),
         language |-> lang,
         word_count |-> Len(split(cleaned_text)),
         char_count |-> Len(cleaned_text)]

\* what extract_text_from_image does: return a result, or raise OCRError
Returned(r) == [kind |-> "returned", result |-> r]
Raised(e) == [kind |-> "raised", exc |-> e]
Pending == [kind |-> "pending"]

-----------------------------------------------------------------------------
(* OCREngine.batch_extract_text *)

\* the indices of enumerate(images)
Indices == 0..(Len(images) - 1)

\* an empty slot of the pre-allocated list
None == [kind |-> "None"]

\* a plausible slip: the length test left out
not_images_never(imgs) == FALSE

\* `if not images`, line 322
not_images(imgs) == imgs = <<>>

\* a plausible slip: the 0-based index used as the page number
page_number_zero_based(index) == index

\* index + 1, lines 350 and 365
page_number(index) == index + 1

\* `language or self.language`, line 362
language_or_default(arg) ==
    IF arg = NoneLang \/ arg = <<"">> THEN self_language ELSE arg

\* lines 350-351: the result of the future, with its page number
page_result(result, index) ==
    [text |-> result.text,
     raw_text |-> result.raw_text,
     confidence |-> result.confidence,
     language |-> result.language,
     word_count |-> result.word_count,
     char_count |-> result.char_count,
     page_number |-> page_number(index)]

\* lines 358-367: the entry recorded for a page whose try block raised
error_result(arg, index, exc) ==
    [text |-> <<>>,
     raw_text |-> <<>>,
     confidence |-> 0,
     language |-> language_or_default(arg),
     word_count |-> 0,
     char_count |-> 0,
     page_number |-> page_number(index),
     error |-> exc]

\* `except Exception`, line 356: every exception a task or the progress bar raises
except_Exception(exc) == exc \in {"OCRError", "OSError", "ValueError"}

\* the exception print() raises when the progress bar cannot be written
PrintError == "OSError"

\* indices whose task a worker thread is running
Running == {i \in Indices : future[i] = "running"}

BatchInitUpTo(pages) ==
    /\ images \in SeqsUpTo(Bitmaps, pages)
    /\ language \in {NoneLang, <<"fra">>}
    /\ show_progress \in BOOLEAN
    /\ cfg_max_workers \in 1..MaxConfigWorkers
    /\ installed = {"chi_sim", "eng"}
    /\ pc = "call"
    /\ executor = [created |-> FALSE, max_workers |-> 0, shutdown |-> FALSE]
    /\ submitted = 0
    /\ future = [i \in Indices |-> "unsubmitted"]
    /\ outcome = [i \in Indices |-> Pending]
    /\ collected = {}
    /\ yieldOrder = <<>>
    /\ completed = 0
    /\ results = <<>>
    /\ returned = Pending
    /\ progress = <<>>
    /\ writes = [i \in Indices |-> 0]
    /\ engineRuns = [i \in Indices |-> 0]

BatchInit == BatchInitUpTo(MaxPages)

BatchIdle ==
    /\ images = <<>>
    /\ language = NoneLang
    /\ show_progress = FALSE
    /\ cfg_max_workers = 1
    /\ installed = {}
    /\ pc = "idle"
    /\ executor = [created |-> FALSE, max_workers |-> 0, shutdown |-> FALSE]
    /\ submitted = 0
    /\ future = <<>>
    /\ outcome = <<>>
    /\ collected = {}
    /\ yieldOrder = <<>>
    /\ completed = 0
    /\ results = <<>>
    /\ returned = Pending
    /\ progress = <<>>
    /\ writes = <<>>
    /\ engineRuns = <<>>

BatchFrame == UNCHANGED <<rangeVars, langVars, cleanVars,
                         statVars, rateVars, layoutVars, optVars, mainVars, confVars>>
BatchArgs == UNCHANGED <<images, language, show_progress, cfg_max_workers, installed>>

\* lines 322-323: nothing to do for an empty list
ReturnEmpty ==
    /\ pc = "call"
    /\ not_images(images)
    /\ returned' = Returned(<<>>)
    /\ pc' = "done"
    /\ UNCHANGED <<executor, submitted, future, outcome, collected, yieldOrder, completed,
                   results, progress, writes, engineRuns>>
    /\ BatchArgs /\ BatchFrame

\* a pool with one worker per image, whatever the configuration says
pool_size_per_image(configured, total_images) == total_images

\* a pool without a worker thread
pool_size_none(configured, total_images) == 0

\* line 331: max_workers = min(config.max_workers, total_images)
pool_size(configured, total_images) == Min(configured, total_images)

\* lines 325-333: results = [], the pool of min(config.max_workers, total_images)
CreatePool ==
    /\ pc = "call"
    /\ ~not_images(images)
    /\ results' = <<>>
    /\ executor' = [created |-> TRUE,
                    max_workers |-> pool_size(cfg_max_workers, Len(images)),
                    shutdown |-> FALSE]
    /\ pc' = "submit"
    /\ UNCHANGED <<submitted, future, outcome, collected, yieldOrder, completed, returned,
                   progress, writes, engineRuns>>
    /\ BatchArgs /\ BatchFrame

\* lines 335-338: executor.submit for the next image of enumerate(images)
Submit ==
    /\ pc = "submit"
    /\ submitted < Len(images)
    /\ future' = [future EXCEPT ![submitted] = "pending"]
    /\ submitted' = submitted + 1
    /\ UNCHANGED <<pc, executor, outcome, collected, yieldOrder, completed, results, returned,
                   progress, writes, engineRuns>>
    /\ BatchArgs /\ BatchFrame

\* lines 341-342: completed = 0, results = [None] * total_images
BeginCollect ==
    /\ pc = "submit"
    /\ submitted = Len(images)
    /\ completed' = 0
    /\ results' = [k \in 1..Len(images) |-> None]
    /\ pc' = "collect"
    /\ UNCHANGED <<executor, submitted, future, outcome, collected, yieldOrder, returned,
                   progress, writes, engineRuns>>
    /\ BatchArgs /\ BatchFrame

\* a worker thread of the pool takes the oldest queued task
WorkerStart(i) ==
    /\ executor.created /\ ~executor.shutdown
    /\ future[i] = "pending"
    /\ \A j \in Indices : future[j] = "pending" => i <= j
    /\ Cardinality(Running) < executor.max_workers
    /\ future' = [future EXCEPT ![i] = "running"]
    /\ engineRuns' = [engineRuns EXCEPT ![i] = @ + 1]
    /\ UNCHANGED <<pc, executor, submitted, outcome, collected, yieldOrder, completed, results,
                   returned, progress, writes>>
    /\ BatchArgs /\ BatchFrame

\* extract_text_from_image(img, language) returns in its worker thread
TaskReturns(i) ==
    /\ future[i] = "running"
    /\ future' = [future EXCEPT ![i] = "finished"]
    /\ outcome' = [outcome EXCEPT ![i] =
            Returned(ocr_result(images[i + 1], effective_language(language, installed)))]
    /\ UNCHANGED <<pc, executor, submitted, collected, yieldOrder, completed, results, returned,
                   progress, writes, engineRuns>>
    /\ BatchArgs /\ BatchFrame

\* extract_text_from_image(img, language) raises OCRError in its worker thread
TaskRaises(i) ==
    /\ future[i] = "running"
    /\ future' = [future EXCEPT ![i] = "finished"]
    /\ outcome' = [outcome EXCEPT ![i] = Raised("OCRError")]
    /\ UNCHANGED <<pc, executor, submitted, collected, yieldOrder, completed, results, returned,
                   progress, writes, engineRuns>>
    /\ BatchArgs /\ BatchFrame

\* a counter that is not advanced
next_completed_stuck(count) == count

\* a counter advanced by two
next_completed_twice(count) == count + 2

\* line 345: completed += 1
next_completed(count) == count + 1

\* as_completed yields the future of index i: it is done and was not yielded before
Yielded(i) ==
    /\ pc = "collect"
    /\ i \in Indices \ collected
    /\ future[i] = "finished"
    /\ collected' = collected \cup {i}
    /\ yieldOrder' = Append(yieldOrder, i)
    /\ completed' = next_completed(completed)

\* lines 356-367: the handler of the try block; an exception it does not catch
\* leaves the with block and the call
Handle(i, exc, written) ==
    IF except_Exception(exc)
    THEN /\ results' = [results EXCEPT ![i + 1] = error_result(language, i, exc)]
         /\ writes' = [writes EXCEPT ![i] = @ + written + 1]
         /\ UNCHANGED <<pc, returned>>
    ELSE /\ results' = IF written = 1
                       THEN [results EXCEPT ![i + 1] = page_result(outcome[i].result, i)]
                       ELSE results
         /\ writes' = [writes EXCEPT ![i] = @ + written]
         /\ pc' = "unwind"
         /\ returned' = Raised(exc)

\* lines 344-354: the future holds a result and the progress bar, if shown, is printed
CollectResult(i) ==
    /\ Yielded(i)
    /\ outcome[i].kind = "returned"
    /\ results' = [results EXCEPT ![i + 1] = page_result(outcome[i].result, i)]
    /\ writes' = [writes EXCEPT ![i] = @ + 1]
    /\ progress' = IF show_progress
                   THEN Append(progress, [current |-> completed', total |-> Len(images),
                                          printed |-> TRUE])
                   ELSE progress
    /\ UNCHANGED <<pc, executor, submitted, future, outcome, returned, engineRuns>>
    /\ BatchArgs /\ BatchFrame

\* lines 344-367: the future holds a result, print_progress_bar raises inside the try
CollectProgressRaises(i) ==
    /\ Yielded(i)
    /\ outcome[i].kind = "returned"
    /\ show_progress
    /\ progress' = Append(progress, [current |-> completed', total |-> Len(images),
                                     printed |-> FALSE])
    /\ Handle(i, PrintError, 1)
    /\ UNCHANGED <<executor, submitted, future, outcome, engineRuns>>
    /\ BatchArgs /\ BatchFrame

\* lines 344-367: future.result() re-raises what the task raised
CollectFailure(i) ==
    /\ Yielded(i)
    /\ outcome[i].kind = "raised"
    /\ Handle(i, outcome[i].exc, 0)
    /\ UNCHANGED <<executor, submitted, future, outcome, progress, engineRuns>>
    /\ BatchArgs /\ BatchFrame

\* line 333: leaving the with block shuts the pool down, waiting for every task
ExitWith ==
    /\ pc \in {"collect", "unwind"}
    /\ pc = "collect" => collected = Indices
    /\ \A i \in Indices : future[i] = "finished"
    /\ executor' = [executor EXCEPT !.shutdown = TRUE]
    /\ pc' = IF pc = "unwind" THEN "done" ELSE "filter"
    /\ UNCHANGED <<submitted, future, outcome, collected, yieldOrder, completed, results,
                   returned, progress, writes, engineRuns>>
    /\ BatchArgs /\ BatchFrame

\* lines 370-373: the None entries are filtered out and the list is returned
Return ==
    /\ pc = "filter"
    /\ results' = SelectSeq(results, LAMBDA r : r # None)
    /\ returned' = Returned(results')
    /\ pc' = "done"
    /\ UNCHANGED <<executor, submitted, future, outcome, collected, yieldOrder, completed,
                   progress, writes, engineRuns>>
    /\ BatchArgs /\ BatchFrame

BatchNext ==
    \/ ReturnEmpty
    \/ CreatePool
    \/ Submit
    \/ BeginCollect
    \/ \E i \in Indices : WorkerStart(i)
    \/ \E i \in Indices : TaskReturns(i)
    \/ \E i \in Indices : TaskRaises(i)
    \/ \E i \in Indices : CollectResult(i)
    \/ \E i \in Indices : CollectProgressRaises(i)
    \/ \E i \in Indices : CollectFailure(i)
    \/ ExitWith
    \/ Return

-----------------------------------------------------------------------------
(* One call of _parse_page_range *)

RangeInit ==
    /\ page_range \in {NoneArg} \cup {Str(s) : s \in SeqsUpTo(RangeChars, MaxRangeLen)}
    /\ total_pages \in 1..MaxTotalPages
    /\ rangeOut = RangePending

RangeIdle ==
    /\ page_range = NoneArg
    /\ total_pages = 1
    /\ rangeOut = RangePending

\* process_pdf, line 89: the range string is resolved against the page count
ParsePageRange ==
    /\ rangeOut = RangePending
    /\ rangeOut' = _parse_page_range(page_range, total_pages)
    /\ UNCHANGED <<page_range, total_pages>>
    /\ UNCHANGED <<batchVars, langVars, cleanVars,
                   statVars, rateVars, layoutVars, optVars, mainVars, confVars>>

RangeNext == ParsePageRange

-----------------------------------------------------------------------------
(* One call of extract_text_from_image *)

LangInit ==
    /\ reqLang \in {NoneLang} \cup LangTags(MaxLangCodes)
    /\ langAvail \in SUBSET PackCodes
    /\ lookupFailed \in BOOLEAN
    /\ pageImage \in Bitmaps
    /\ pageOut = Pending
    /\ engineLangs = <<>>

LangIdle ==
    /\ reqLang = NoneLang
    /\ langAvail = {}
    /\ lookupFailed = FALSE
    /\ pageImage = "blank"
    /\ pageOut = Pending
    /\ engineLangs = <<>>

\* the language of lines 207-222 in this call
CallLanguage ==
    effective_language(reqLang, get_available_languages(langAvail, lookupFailed))

\* lines 207-270: both engine calls answer and the result is returned; the engine
\* answers only for a language whose packs it has
ExtractReturns ==
    /\ pageOut = Pending
    /\ \A i \in 1..Len(CallLanguage) : CallLanguage[i] \in langAvail
    /\ engineLangs' = <<CallLanguage, CallLanguage>>
    /\ pageOut' = Returned(ocr_result(pageImage, CallLanguage))
    /\ UNCHANGED <<reqLang, langAvail, lookupFailed, pageImage>>
    /\ UNCHANGED <<batchVars, rangeVars, cleanVars,
                   statVars, rateVars, layoutVars, optVars, mainVars, confVars>>

\* what the calls of the try block raise: the engine calls a TesseractError or
\* an error of the runtime, int() of a confidence a ValueError
try_exceptions(at) ==
    IF at = "conf" THEN {IntError} ELSE {"TesseractError", "RuntimeError"}

\* a handler that lets the exception through
reraise(exc) == exc

\* lines 272-275: except Exception as e: raise OCRError(error_msg)
wrap_exception(exc) == "OCRError"

\* lines 224-275: image_to_string, image_to_data or the conversion of the
\* confidences raises; the handler wraps the exception into OCRError
ExtractRaises(at) ==
    /\ pageOut = Pending
    /\ engineLangs' = IF at = "image_to_string" THEN <<CallLanguage>>
                      ELSE <<CallLanguage, CallLanguage>>
    /\ \E exc \in try_exceptions(at) : pageOut' = Raised(wrap_exception(exc))
    /\ UNCHANGED <<reqLang, langAvail, lookupFailed, pageImage>>
    /\ UNCHANGED <<batchVars, rangeVars, cleanVars,
                   statVars, rateVars, layoutVars, optVars, mainVars, confVars>>

LangNext ==
    \/ ExtractReturns
    \/ \E at \in {"image_to_string", "image_to_data", "conf"} : ExtractRaises(at)

-----------------------------------------------------------------------------
(* _clean_text applied to a text, and again to its own result *)

CleanInit ==
    /\ rawText \in SeqsUpTo(TextChars, MaxTextLen)
    /\ cleanPc = "start"
    /\ cleanOnce = <<>>
    /\ cleanTwice = <<>>

CleanIdle ==
    /\ rawText = <<>>
    /\ cleanPc = "idle"
    /\ cleanOnce = <<>>
    /\ cleanTwice = <<>>

\* line 258: cleaned_text = self._clean_text(text)
CleanFirst ==
    /\ cleanPc = "start"
    /\ cleanOnce' = _clean_text(rawText)
    /\ cleanPc' = "once"
    /\ UNCHANGED <<rawText, cleanTwice>>
    /\ UNCHANGED <<batchVars, rangeVars, langVars,
                   statVars, rateVars, layoutVars, optVars, mainVars, confVars>>

\* the cleaned text is cleaned again
CleanAgain ==
    /\ cleanPc = "once"
    /\ cleanTwice' = _clean_text(cleanOnce)
    /\ cleanPc' = "twice"
    /\ UNCHANGED <<rawText, cleanOnce>>
    /\ UNCHANGED <<batchVars, rangeVars, langVars,
                   statVars, rateVars, layoutVars, optVars, mainVars, confVars>>

CleanNext == CleanFirst \/ CleanAgain

-----------------------------------------------------------------------------
(* get_ocr_statistics and _print_statistics *)
\* config.confidence_threshold as config.py sets it, in percent
confidence_threshold_default == 60

\* a percentage in the unit of the confidences, hundredths of a percent
Hundredths(percent) == 100 * percent

\* the empty dict
EmptyDict == [k \in {} |-> 0]

\* a lookup that answers -1 for a missing key
dict_get_minus_one(d, key, default) == IF key \in DOMAIN d THEN d[key] ELSE -1

\* dict.get(key, default)
dict_get(d, key, default) == IF key \in DOMAIN d THEN d[key] ELSE default

\* round(num / den, 2) for num in hundredths: the nearest hundredth; the float is
\* rounded by its binary value, so a quotient half way between two hundredths
\* may go to either
round_2dp(num, den) ==
    LET lo == num \div den
    IN  {q \in {lo, lo + 1} : 2 * Abs(q * den - num) <= den}

\* line 476: if not results
not_results(ocr_results) == ocr_results = <<>>

\* sum(r.get(key, 0) for r in results)
RECURSIVE sum_get(_, _)
sum_get(ocr_results, key) ==
    IF ocr_results = <<>>
    THEN 0
    ELSE dict_get(Head(ocr_results), key, 0) + sum_get(Tail(ocr_results), key)

\* the mean confidence of the pages without an error entry
mean_confidence_of_successes(ocr_results) ==
    LET ok == SelectSeq(ocr_results, LAMBDA r : "error" \notin DOMAIN r)
    IN  IF ok = <<>> THEN {0} ELSE round_2dp(sum_get(ok, "confidence"), Len(ok))

\* lines 483 and 501: round(sum(confidence) / total_pages, 2)
mean_confidence(ocr_results) ==
    round_2dp(sum_get(ocr_results, "confidence"), Len(ocr_results))

\* [r.get('page_number', i + 1) for i, r in enumerate(results) if i + 1 in keep]
pages_if(ocr_results, keep) ==
    LET F[k \in 0..Len(ocr_results)] ==
            IF k = 0 THEN <<>>
            ELSE IF k \in keep
                 THEN Append(F[k - 1], dict_get(ocr_results[k], "page_number", k))
                 ELSE F[k - 1]
    IN  F[Len(ocr_results)]

\* a page is low when its confidence does not exceed the threshold
is_low_or_equal(r, threshold) == dict_get(r, "confidence", 0) <= threshold

\* line 488: r.get('confidence', 0) < self.confidence_threshold
is_low(r, threshold) == dict_get(r, "confidence", 0) < threshold

\* lines 486-489
low_confidence_pages(ocr_results, threshold) ==
    pages_if(ocr_results, {k \in 1..Len(ocr_results) : is_low(ocr_results[k], threshold)})

\* lines 492-495: 'error' in r
error_pages(ocr_results) ==
    pages_if(ocr_results, {k \in 1..Len(ocr_results) : "error" \in DOMAIN ocr_results[k]})

\* the share of pages with an error, in hundredths of a percent
error_rate(total, failed) == round_2dp(failed * Hundredths(100), total)

\* line 504: round((total_pages - len(error_pages)) / total_pages * 100, 2)
success_rate(total, failed) == round_2dp((total - failed) * Hundredths(100), total)

\* lines 466-505: the dicts the call can return (one, or two when a rounding ties)
get_ocr_statistics(ocr_results, threshold) ==
    IF not_results(ocr_results)
    THEN {EmptyDict}
    ELSE {[total_pages |-> Len(ocr_results),
           total_characters |-> sum_get(ocr_results, "char_count"),
           total_words |-> sum_get(ocr_results, "word_count"),
           average_confidence |-> a,
           low_confidence_pages |-> low_confidence_pages(ocr_results, threshold),
           error_pages |-> error_pages(ocr_results),
           success_rate |-> s] :
          a \in mean_confidence(ocr_results),
          s \in success_rate(Len(ocr_results), Len(error_pages(ocr_results)))}

\* main.py lines 221-225: a list is printed when the dict has it and it is not
\* empty; nothing is printed otherwise
printed_pages(d, key) == IF key \in DOMAIN d THEN d[key] ELSE <<>>

\* main.py lines 215-225: the values _print_statistics shows
shown_statistics(d) ==
    [total_pages |-> dict_get(d, "total_pages", 0),
     total_characters |-> dict_get(d, "total_characters", 0),
     total_words |-> dict_get(d, "total_words", 0),
     average_confidence |-> dict_get(d, "average_confidence", 0),
     success_rate |-> dict_get(d, "success_rate", 0),
     low_confidence_pages |-> printed_pages(d, "low_confidence_pages"),
     error_pages |-> printed_pages(d, "error_pages")]

\* longest list of page results given to get_ocr_statistics
MaxStatPages == 3

\* the confidences of the recognized pages of a list, in hundredths
StatConfidences == {0, 5999, 6000, 10000}

\* the entry batch_extract_text returns for position k: an error entry for c = -1,
\* else a recognized page of confidence c
StatEntry(c, k) ==
    IF c = -1
    THEN error_result(NoneLang, k - 1, "OCRError")
    ELSE page_result([text |-> <<"a", " ", "b">>,
                      raw_text |-> <<"a", " ", "b", "\n">>,
                      confidence |-> c,
                      language |-> self_language,
                      word_count |-> 2,
                      char_count |-> 3], k - 1)

StatLists ==
    UNION {{[k \in 1..n |-> StatEntry(f[k], k)] : f \in [1..n -> StatConfidences \cup {-1}]} :
           n \in 0..MaxStatPages}

StatInit ==
    /\ statResults \in StatLists
    /\ statThreshold \in {Hundredths(0), Hundredths(confidence_threshold_default)}
    /\ statPc = "call"
    /\ statsOut = EmptyDict
    /\ statsShown = EmptyDict

StatIdle ==
    /\ statResults = <<>>
    /\ statThreshold = Hundredths(confidence_threshold_default)
    /\ statPc = "idle"
    /\ statsOut = EmptyDict
    /\ statsShown = EmptyDict

\* main.py line 209: stats = self.ocr_engine.get_ocr_statistics(ocr_results)
GetStatistics ==
    /\ statPc = "call"
    /\ \E d \in get_ocr_statistics(statResults, statThreshold) : statsOut' = d
    /\ statPc' = "returned"
    /\ UNCHANGED <<statResults, statThreshold, statsShown>>
    /\ UNCHANGED <<coreVars, rateVars, layoutVars, optVars, mainVars, confVars>>

\* main.py lines 211-228: the summary is printed
PrintStatistics ==
    /\ statPc = "returned"
    /\ statsShown' = shown_statistics(statsOut)
    /\ statPc' = "printed"
    /\ UNCHANGED <<statResults, statThreshold, statsOut>>
    /\ UNCHANGED <<coreVars, rateVars, layoutVars, optVars, mainVars, confVars>>

StatNext == GetStatistics \/ PrintStatistics

-----------------------------------------------------------------------------
(* The success rate of get_ocr_statistics, on the two counts it depends on *)

\* largest small number of results
MaxRateTotal == 8

\* long documents, around the length at which one page is half a hundredth
LargeTotals == {19999, 20001}

RateInit ==
    /\ rateTotal \in (1..MaxRateTotal) \cup LargeTotals
    /\ rateErrors \in {e \in 0..rateTotal : e <= MaxRateTotal \/ e >= rateTotal - 1}
    /\ ratePc = "call"
    /\ rateOut = 0

RateIdle ==
    /\ rateTotal = 1
    /\ rateErrors = 0
    /\ ratePc = "idle"
    /\ rateOut = 0

\* lines 490-504: the success_rate entry for total_pages results, len(error_pages)
\* of them with an error
ComputeSuccessRate ==
    /\ ratePc = "call"
    /\ rateOut' \in success_rate(rateTotal, rateErrors)
    /\ ratePc' = "returned"
    /\ UNCHANGED <<rateTotal, rateErrors>>
    /\ UNCHANGED <<coreVars, statVars, layoutVars, optVars, mainVars, confVars>>

RateNext == ComputeSuccessRate

-----------------------------------------------------------------------------
(* OCREngine.extract_text_with_layout and _rebuild_text_from_blocks *)

\* longest token list the engine reports for one image
MaxTokens == 3

\* the word texts, confidences (around the default threshold), left edges and
\* line numbers the engine reports
TokenTexts == {<<"a">>, <<"b">>, <<" ">>}
TokenConfs == {confidence_threshold_default - 1, confidence_threshold_default,
               confidence_threshold_default + 1}
TokenLefts == {0, 1}
TokenLines == {1, 2}
\* a token below the threshold comes with one text and one left edge
Tokens ==
    {t \in [text : TokenTexts, conf : TokenConfs, left : TokenLefts, line_num : TokenLines] :
        t.conf < confidence_threshold_default => t.text = <<"a">> /\ t.left = 0}

\* lines 403-412: the word_info of a token
word_info(token) ==
    [text |-> token.text, confidence |-> token.conf, left |-> token.left,
     line_num |-> token.line_num]

\* line 402: int(data['conf'][i]) > self.confidence_threshold
above_threshold(conf, threshold) == conf > threshold

\* a new line only for a greater line number
line_increases(line_num, current_line) == line_num > current_line

\* line 414: data['line_num'][i] != current_line
line_changes(line_num, current_line) == line_num # current_line

\* lines 397-424: the loop over the tokens; blocks are the finished lines, cur the
\* line being collected, line the line number it is collected for
text_blocks_of(data, threshold) ==
    LET G[k \in 0..Len(data)] ==
            IF k = 0
            THEN [blocks |-> <<>>, cur |-> <<>>,
                  line |-> IF data # <<>> THEN data[1].line_num ELSE 0]
            ELSE LET p == G[k - 1]
                     t == data[k]
                 IN  IF above_threshold(t.conf, threshold)
                     THEN IF line_changes(t.line_num, p.line)
                          THEN [blocks |-> IF p.cur # <<>> THEN Append(p.blocks, p.cur)
                                           ELSE p.blocks,
                                cur |-> <<word_info(t)>>,
                                line |-> t.line_num]
                          ELSE [p EXCEPT !.cur = Append(@, word_info(t))]
                     ELSE p
        g == G[Len(data)]
    IN  IF g.cur # <<>> THEN Append(g.blocks, g.cur) ELSE g.blocks

\* a sort that puts w before the words of the same left
RECURSIVE insert_before_equal(_, _)
insert_before_equal(sorted, w) ==
    IF sorted = <<>> THEN <<w>>
    ELSE IF Head(sorted).left < w.left
         THEN <<Head(sorted)>> \o insert_before_equal(Tail(sorted), w)
         ELSE <<w>> \o sorted

\* list.sort(key=left) puts w into the sorted list after every word whose left
\* is not greater (the sort is stable)
RECURSIVE insert_by_left(_, _)
insert_by_left(sorted, w) ==
    IF sorted = <<>> THEN <<w>>
    ELSE IF Head(sorted).left <= w.left
         THEN <<Head(sorted)>> \o insert_by_left(Tail(sorted), w)
         ELSE <<w>> \o sorted

\* line 458: block.sort(key=lambda x: x['left'])
RECURSIVE sort_by_left(_)
sort_by_left(block) ==
    IF block = <<>> THEN <<>>
    ELSE insert_by_left(sort_by_left(SubSeq(block, 1, Len(block) - 1)), block[Len(block)])

\* line 461: ' '.join(word['text'] for word in block if word['text'].strip())
line_text(block) ==
    LET shown == SelectSeq(block, LAMBDA w : strip(w.text) # <<>>)
    IN  join(<<" ">>, [k \in 1..Len(shown) |-> shown[k].text])

\* every block gives a line, also one without text
_rebuild_text_keeps_empty(blocks) ==
    join(<<"\n">>, [k \in 1..Len(blocks) |-> line_text(sort_by_left(blocks[k]))])

\* lines 451-464: the lines of the non-empty blocks, joined by newlines
_rebuild_text_from_blocks(blocks) ==
    LET texts == [k \in 1..Len(blocks) |-> line_text(sort_by_left(blocks[k]))]
    IN  join(<<"\n">>, SelectSeq(texts, LAMBDA t : strip(t) # <<>>))

\* lines 426-433: the dict returned; the blocks were sorted in place
layout_result(data, threshold) ==
    LET blocks == text_blocks_of(data, threshold)
    IN  [text |-> _rebuild_text_from_blocks(blocks),
         text_blocks |-> [k \in 1..Len(blocks) |-> sort_by_left(blocks[k])],
         language |-> self_language,
         total_blocks |-> Len(blocks)]

LayoutInit ==
    /\ layData = <<>>
    /\ layThreshold = confidence_threshold_default
    /\ layPc = "call"
    /\ layOut = Pending

LayoutIdle ==
    /\ layData = <<>>
    /\ layThreshold = confidence_threshold_default
    /\ layPc = "idle"
    /\ layOut = Pending

\* lines 389-433: the engine reports the tokens and the call returns
LayoutReturns ==
    /\ layPc = "call"
    /\ \E data \in SeqsUpTo(Tokens, MaxTokens) :
          /\ layData' = data
          /\ layOut' = Returned(layout_result(data, layThreshold))
    /\ layPc' = "done"
    /\ UNCHANGED layThreshold
    /\ UNCHANGED <<coreVars, statVars, rateVars, optVars, mainVars, confVars>>

\* lines 435-438: the engine raises and the call raises OCRError
LayoutRaises ==
    /\ layPc = "call"
    /\ layOut' = Raised("OCRError")
    /\ layPc' = "done"
    /\ UNCHANGED <<layData, layThreshold>>
    /\ UNCHANGED <<coreVars, statVars, rateVars, optVars, mainVars, confVars>>

LayoutNext == LayoutReturns \/ LayoutRaises

-----------------------------------------------------------------------------
(* PDFProcessor.optimize_image_for_ocr *)

\* lines 273-274: the side below which an image is enlarged
min_side == 1000

\* image modes and side lengths of the pages given to the call
ImageModes == {"RGB", "RGBA", "L"}
ImageSides == {min_side \div 2, min_side - 1, min_side, 2 * min_side}
PageImages == [mode : ImageModes, width : ImageSides, height : ImageSides]

\* no image: the call has not returned
NoImage == [mode |-> "none", width |-> 0, height |-> 0]

\* lines 268-269: image.mode != 'L'
needs_convert(image) == image.mode # "L"

\* line 269: image.convert('L')
convert_L(image) == [image EXCEPT !.mode = "L"]

\* line 273: width < 1000 or height < 1000
needs_resize(image) == image.width < min_side \/ image.height < min_side

\* lines 274-278: both sides are scaled by max(1000 / width, 1000 / height)
resize_to_min_side(image) ==
    LET shorter == Min(image.width, image.height)
    IN  [image EXCEPT !.width = (image.width * min_side) \div shorter,
                      !.height = (image.height * min_side) \div shorter]

\* the local variable `image` after the grayscale step
after_convert(image) == IF needs_convert(image) THEN convert_L(image) ELSE image

OptInit ==
    /\ optImage \in PageImages
    /\ optPc = "call"
    /\ optOut = NoImage

OptIdle ==
    /\ optImage = NoImage
    /\ optPc = "idle"
    /\ optOut = NoImage

\* lines 266-280: no step raises; the converted and enlarged image is returned
OptimizeReturns ==
    /\ optPc = "call"
    /\ optOut' = IF needs_resize(after_convert(optImage))
                 THEN resize_to_min_side(after_convert(optImage))
                 ELSE after_convert(optImage)
    /\ optPc' = "returned"
    /\ UNCHANGED optImage
    /\ UNCHANGED <<coreVars, statVars, rateVars, layoutVars, mainVars, confVars>>

\* lines 269 and 282-284: convert raises; `image` is still the argument
ConvertRaises ==
    /\ optPc = "call"
    /\ needs_convert(optImage)
    /\ optOut' = optImage
    /\ optPc' = "convert raised"
    /\ UNCHANGED optImage
    /\ UNCHANGED <<coreVars, statVars, rateVars, layoutVars, mainVars, confVars>>

\* lines 278 and 282-284: resize raises; `image` was rebound by the grayscale step
ResizeRaises ==
    /\ optPc = "call"
    /\ needs_resize(after_convert(optImage))
    /\ optOut' = after_convert(optImage)
    /\ optPc' = "resize raised"
    /\ UNCHANGED optImage
    /\ UNCHANGED <<coreVars, statVars, rateVars, layoutVars, mainVars, confVars>>

OptNext == OptimizeReturns \/ ConvertRaises \/ ResizeRaises

-----------------------------------------------------------------------------
(* main and PDFOCRTool.__init__ *)

\* pdf_processor.py line 36: the poppler tools looked up on the PATH
poppler_tools == {"pdfinfo", "pdftoppm"}

\* a check that looks for pdfinfo only
missing_deps_pdfinfo_only(found) == {"pdfinfo"} \ found

\* pdf_processor.py lines 33-39: the tools shutil.which does not find
missing_deps(found) == poppler_tools \ found

\* ocr_engine.py lines 133-162: tesseract is on the PATH and reports its version
tesseract_usable(state) == state = "ok"

\* main.py lines 76-117: the page-processing steps of process_pdf, in order
ProcessSteps == <<"resolve", "rasterize", "preprocess", "recognize">>

\* the --pages arguments of the command line
PageArgs == {NoneArg} \cup {Str(s) : s \in SeqsUpTo(RangeChars, MaxRangeLen)}

\* every page of the document, whatever the selection
rendered_pages_all(sel, total) == [k \in 1..total |-> k]

\* pdf_processor.py lines 150-158: the document pages convert_from_path renders
\* for first_page and last_page, every page without them
rendered_pages(sel, total) ==
    IF sel.kind = "tuple"
    THEN [k \in 1..(Min(sel.end, total) - sel.start + 1) |-> sel.start + k - 1]
    ELSE [k \in 1..total |-> k]

\* the confidences of the recognized pages of a run, in hundredths
MainConfidences == {Hundredths(confidence_threshold_default - 10),
                    Hundredths(confidence_threshold_default + 10),
                    Hundredths(confidence_threshold_default + 30)}

\* the threshold the configuration holds when it is asked
config_confidence_threshold_now(at_construction, now) == now

\* ocr_engine.py lines 28 and 487: self.confidence_threshold, assigned once
self_confidence_threshold(at_construction, now) == at_construction

\* text_formatter.py lines 311-315: low_confidence_pages of the summary report
report_low_confidence_pages(ocr_results, threshold) ==
    pages_if(ocr_results, {k \in 1..Len(ocr_results) : is_low(ocr_results[k], threshold)})

MainInit ==
    /\ poppler \in SUBSET poppler_tools
    /\ tesseract \in {"ok", "missing", "broken"}
    /\ argv \in [list_languages : BOOLEAN,
                 input_pdf : {"none", "missing", "exists"},
                 confidence : {confidence_threshold_default,
                               confidence_threshold_default + 20}]
    /\ mainPc = "start"
    /\ exitStatus = -1
    /\ cfgThreshold = confidence_threshold_default
    /\ engineThreshold = -1
    /\ steps = <<>>
    /\ docPages \in IF argv.input_pdf = "exists" THEN 1..MaxTotalPages ELSE {0}
    /\ pageSel = RangePending
    /\ rendered = <<>>
    /\ mainResults = <<>>
    /\ mainStats = EmptyDict
    /\ reportLow = <<>>

MainIdle ==
    /\ poppler = poppler_tools
    /\ tesseract = "ok"
    /\ argv = [list_languages |-> FALSE, input_pdf |-> "none",
               confidence |-> confidence_threshold_default]
    /\ mainPc = "idle"
    /\ exitStatus = -1
    /\ cfgThreshold = confidence_threshold_default
    /\ engineThreshold = -1
    /\ steps = <<>>
    /\ docPages = 0
    /\ pageSel = RangePending
    /\ rendered = <<>>
    /\ mainResults = <<>>
    /\ mainStats = EmptyDict
    /\ reportLow = <<>>

MainFrame == UNCHANGED <<coreVars, statVars, rateVars, layoutVars, optVars, confVars>>
MainEnv == UNCHANGED <<poppler, tesseract, argv>>

\* main.py lines 406-408 and 411: main returns status
Exit(status) ==
    /\ exitStatus' = status
    /\ mainPc' = "exit"

\* main.py line 358, pdf_processor.py lines 22-50: PDFProcessor() raises
\* FileProcessError, main's handler returns 1
ProcessorCheckFails ==
    /\ mainPc = "start"
    /\ missing_deps(poppler) # {}
    /\ Exit(1)
    /\ UNCHANGED <<cfgThreshold, engineThreshold, steps, procVars>>
    /\ MainEnv /\ MainFrame

\* main.py line 358, ocr_engine.py lines 24-32 and 133-162: OCREngine() raises
\* OCRError, main's handler returns 1
EngineCheckFails ==
    /\ mainPc = "start"
    /\ missing_deps(poppler) = {}
    /\ ~tesseract_usable(tesseract)
    /\ engineThreshold' = cfgThreshold
    /\ Exit(1)
    /\ UNCHANGED <<cfgThreshold, steps, procVars>>
    /\ MainEnv /\ MainFrame

\* main.py line 358: PDFOCRTool() is constructed
Construct ==
    /\ mainPc = "start"
    /\ missing_deps(poppler) = {}
    /\ tesseract_usable(tesseract)
    /\ engineThreshold' = cfgThreshold
    /\ mainPc' = "constructed"
    /\ UNCHANGED <<exitStatus, cfgThreshold, steps, procVars>>
    /\ MainEnv /\ MainFrame

\* main.py lines 361-366: --list-languages
ListLanguages ==
    /\ mainPc = "constructed"
    /\ argv.list_languages
    /\ Exit(0)
    /\ UNCHANGED <<cfgThreshold, engineThreshold, steps, procVars>>
    /\ MainEnv /\ MainFrame

\* main.py lines 369-375: no input file, or the file does not exist
NoInputFile ==
    /\ mainPc = "constructed"
    /\ ~argv.list_languages
    /\ argv.input_pdf \in {"none", "missing"}
    /\ Exit(1)
    /\ UNCHANGED <<cfgThreshold, engineThreshold, steps, procVars>>
    /\ MainEnv /\ MainFrame

\* main.py lines 378-388: the command line updates the configuration
UpdateConfig ==
    /\ mainPc = "constructed"
    /\ ~argv.list_languages
    /\ argv.input_pdf = "exists"
    /\ cfgThreshold' = argv.confidence
    /\ mainPc' = "process"
    /\ UNCHANGED <<exitStatus, engineThreshold, steps, procVars>>
    /\ MainEnv /\ MainFrame

\* main.py lines 89-122: process_pdf takes its next page-processing step
ProcessStep(name) ==
    /\ mainPc = "process"
    /\ Len(steps) < Len(ProcessSteps)
    /\ ProcessSteps[Len(steps) + 1] = name
    /\ steps' = Append(steps, name)
    /\ UNCHANGED <<mainPc, exitStatus, cfgThreshold, engineThreshold, docPages>>
    /\ MainEnv /\ MainFrame

\* main.py line 89: the --pages argument is resolved against the page count
Resolve ==
    /\ ProcessStep("resolve")
    /\ \E arg \in PageArgs : pageSel' = _parse_page_range(arg, docPages)
    /\ UNCHANGED <<rendered, mainResults, mainStats, reportLow>>

\* main.py lines 93-99: the selected pages are rendered; no image is a failure
Rasterize ==
    /\ ProcessStep("rasterize")
    /\ pageSel.kind \in {"None", "tuple"}
    /\ rendered_pages(pageSel, docPages) # <<>>
    /\ rendered' = rendered_pages(pageSel, docPages)
    /\ UNCHANGED <<pageSel, mainResults, mainStats, reportLow>>

\* main.py lines 114-117: every image is optimized
Preprocess ==
    /\ ProcessStep("preprocess")
    /\ UNCHANGED <<pageSel, rendered, mainResults, mainStats, reportLow>>

\* main.py lines 121-123: batch_extract_text returns an entry for every image
Recognize ==
    /\ ProcessStep("recognize")
    /\ \E f \in [1..Len(rendered) -> MainConfidences \cup {-1}] :
          mainResults' = [k \in 1..Len(rendered) |-> StatEntry(f[k], k)]
    /\ UNCHANGED <<pageSel, rendered, mainStats, reportLow>>

\* main.py lines 75-171 and 404: process_pdf returns False
ProcessFails ==
    /\ mainPc = "process"
    /\ Exit(1)
    /\ UNCHANGED <<cfgThreshold, engineThreshold, steps, procVars>>
    /\ MainEnv /\ MainFrame

\* main.py lines 164 and 404: process_pdf returns True
ProcessSucceeds ==
    /\ mainPc = "process"
    /\ steps = ProcessSteps
    /\ reportLow' = report_low_confidence_pages(mainResults, Hundredths(cfgThreshold))
    /\ mainStats' \in get_ocr_statistics(
                         mainResults,
                         Hundredths(self_confidence_threshold(engineThreshold, cfgThreshold)))
    /\ Exit(0)
    /\ UNCHANGED <<cfgThreshold, engineThreshold, steps, docPages, pageSel, rendered,
                   mainResults>>
    /\ MainEnv /\ MainFrame

\* main.py lines 406-408: Ctrl-C
Interrupted ==
    /\ mainPc \in {"start", "constructed", "process"}
    /\ Exit(1)
    /\ UNCHANGED <<cfgThreshold, engineThreshold, steps, procVars>>
    /\ MainEnv /\ MainFrame

MainNext ==
    \/ ProcessorCheckFails \/ EngineCheckFails \/ Construct
    \/ ListLanguages \/ NoInputFile \/ UpdateConfig
    \/ Resolve \/ Rasterize \/ Preprocess \/ Recognize \/ ProcessFails \/ ProcessSucceeds \/ Interrupted

-----------------------------------------------------------------------------
(* The confidence of a page, lines 248-263 of extract_text_from_image *)

\* longest list of token confidences the engine reports for one page
MaxConfTokens == 3

\* the confidences of the tokens: -1 where the engine has no result for the row
ConfValues == {-1, 0, 1, 50, 100}

ConfInit ==
    /\ confData = <<>>
    /\ confPc = "call"
    /\ confOut = 0

ConfIdle ==
    /\ confData = <<>>
    /\ confPc = "idle"
    /\ confOut = 0

\* lines 248-263: the confidences are averaged and rounded into the result
ComputeConfidence ==
    /\ confPc = "call"
    /\ \E conf \in SeqsUpTo(ConfValues, MaxConfTokens) :
          /\ confData' = conf
          /\ confOut' = avg_confidence(conf)
    /\ confPc' = "done"
    /\ UNCHANGED <<coreVars, statVars, rateVars, layoutVars, optVars, mainVars>>

ConfNext == ComputeConfidence

-----------------------------------------------------------------------------
(* Specifications *)

CoreIdle == BatchIdle /\ RangeIdle /\ LangIdle /\ CleanIdle
ExtIdle == StatIdle /\ RateIdle /\ LayoutIdle /\ OptIdle /\ MainIdle /\ ConfIdle

\* batch_extract_text with its pool of worker threads
Init == BatchInit /\ RangeIdle /\ LangIdle /\ CleanIdle /\ ExtIdle
Next == BatchNext
Spec == Init /\ [][Next]_vars

\* longest list of page bitmaps in the runs checked for termination
MaxLivePages == 2

\* the calling thread takes its next step
CallerStep ==
    \/ ReturnEmpty \/ CreatePool \/ Submit \/ BeginCollect
    \/ \E i \in Indices : CollectFailure(i) \/ CollectProgressRaises(i) \/ CollectResult(i)
    \/ ExitWith \/ Return

\* an idle worker thread of the pool takes the oldest queued task
PoolStep == \E i \in Indices : WorkerStart(i)

\* the engine call of task i raises or returns
EngineStep(i) == i \in Indices /\ (TaskRaises(i) \/ TaskReturns(i))

\* the threads are scheduled, and every engine call eventually returns or raises
Fairness ==
    /\ WF_vars(CallerStep)
    /\ WF_vars(PoolStep)
    /\ \A i \in 0..(MaxLivePages - 1) : WF_vars(EngineStep(i))

\* batch_extract_text with threads that keep running
InitLive == BatchInitUpTo(MaxLivePages) /\ RangeIdle /\ LangIdle /\ CleanIdle /\ ExtIdle
SpecLive == InitLive /\ [][Next]_vars /\ Fairness

\* _parse_page_range on every range string and page count within the bounds
InitRange == RangeInit /\ BatchIdle /\ LangIdle /\ CleanIdle /\ ExtIdle
SpecRange == InitRange /\ [][RangeNext]_vars

\* extract_text_from_image on every request and every set of language packs
InitLang == LangInit /\ BatchIdle /\ RangeIdle /\ CleanIdle /\ ExtIdle
SpecLang == InitLang /\ [][LangNext]_vars

\* _clean_text on every text within the bounds
InitClean == CleanInit /\ BatchIdle /\ RangeIdle /\ LangIdle /\ ExtIdle
SpecClean == InitClean /\ [][CleanNext]_vars

\* get_ocr_statistics and _print_statistics on every result list within the bounds
InitStats == StatInit /\ CoreIdle /\ RateIdle /\ LayoutIdle /\ OptIdle /\ MainIdle /\ ConfIdle
SpecStats == InitStats /\ [][StatNext]_vars

\* the success rate on short and on long result lists
InitRate == RateInit /\ CoreIdle /\ StatIdle /\ LayoutIdle /\ OptIdle /\ MainIdle /\ ConfIdle
SpecRate == InitRate /\ [][RateNext]_vars

\* extract_text_with_layout on every token list within the bounds
InitLayout == LayoutInit /\ CoreIdle /\ StatIdle /\ RateIdle /\ OptIdle /\ MainIdle /\ ConfIdle
SpecLayout == InitLayout /\ [][LayoutNext]_vars

\* optimize_image_for_ocr on every page image
InitOpt == OptInit /\ CoreIdle /\ StatIdle /\ RateIdle /\ LayoutIdle /\ MainIdle /\ ConfIdle
SpecOptimize == InitOpt /\ [][OptNext]_vars

\* main in every environment and for every command line
InitMain == MainInit /\ CoreIdle /\ StatIdle /\ RateIdle /\ LayoutIdle /\ OptIdle /\ ConfIdle
SpecMain == InitMain /\ [][MainNext]_vars

\* the confidence of a page for every list of token confidences within the bounds
InitConf == ConfInit /\ CoreIdle /\ StatIdle /\ RateIdle /\ LayoutIdle /\ OptIdle /\ MainIdle
SpecConfidence == InitConf /\ [][ConfNext]_vars

-----------------------------------------------------------------------------
(* Claims about batch_extract_text, checked under Spec *)

\* the entry of page index j when its recognition returns and nothing else interferes
ExpectedPage(j) ==
    [text |-> _clean_text(image_to_string(images[j + 1])),
     raw_text |-> image_to_string(images[j + 1]),
     confidence |-> avg_confidence(image_to_data_conf(images[j + 1])),
     language |-> effective_language(language, installed),
     word_count |-> Len(split(_clean_text(image_to_string(images[j + 1])))),
     char_count |-> Len(_clean_text(image_to_string(images[j + 1]))),
     page_number |-> j + 1]

\* C1: for every list of N bitmaps and every completion order the call returns
\* exactly N results, the i-th with page number i (i = 1..N), and the tasks are
\* submitted in page order.
C1_OrderPreserved ==
    /\ returned.kind # "raised"
    /\ \A i, j \in Indices : (i < j /\ future[j] # "unsubmitted") => future[i] # "unsubmitted"
    /\ pc = "done" =>
          /\ returned.kind = "returned"
          /\ Len(returned.result) = Len(images)
          /\ \A k \in 1..Len(images) : returned.result[k].page_number = k

\* C1 witness: three pages were yielded last page first, and the call returned
C1_Witness ==
    /\ pc = "done"
    /\ Len(images) = 3
    /\ yieldOrder = <<2, 1, 0>>
    /\ Len(returned.result) = 3
    /\ returned.result[1].page_number = 1
    /\ returned.result[3].page_number = 3

\* C2: a recognition error of page k does not make the call raise; the entry at
\* position k has page number k, empty text, confidence 0, zero counts and an
\* error field, and an entry has an error field only if its page's recognition raised.
C2_ErrorsBecomeData ==
    pc = "done" =>
        /\ returned.kind = "returned"
        /\ Len(returned.result) = Len(images)
        /\ \A k \in Indices :
              LET r == returned.result[k + 1] IN
              /\ outcome[k].kind = "raised" =>
                    /\ r.page_number = k + 1
                    /\ r.text = <<>>
                    /\ r.confidence = 0
                    /\ r.word_count = 0
                    /\ r.char_count = 0
                    /\ "error" \in DOMAIN r
              /\ "error" \in DOMAIN r => outcome[k].kind = "raised"

C9_EmptyInput ==
    images = <<>> =>
        /\ pc \in {"call", "done"}
        /\ ~executor.created
        /\ submitted = 0
        /\ yieldOrder = <<>>
        /\ progress = <<>>
        /\ results = <<>>
        /\ pc = "done" => returned = Returned(<<>>)

\* C9 witness: the call on the empty list has returned the empty list
C9_Witness ==
    /\ images = <<>>
    /\ pc = "done"
    /\ returned = Returned(<<>>)
    /\ ~executor.created

\* C18: every result slot is written exactly once: no slot is written a second
\* time, and when the collecting loop has ended every slot holds an entry, so the
\* final filter of empty slots removes nothing.
C18_SlotWrittenOnce ==
    /\ \A i \in Indices : writes[i] <= 1
    /\ pc \in {"filter", "done"} /\ images # <<>> =>
          /\ \A i \in Indices : writes[i] = 1
          /\ \A k \in 1..Len(results) : results[k] # None
    /\ pc = "done" /\ returned.kind = "returned" =>
          Len(returned.result) = Len(images)

\* C19: the returned list does not depend on progress reporting: whether the bar is
\* shown or not and whether printing it succeeds or fails, the entry of a page is
\* fixed by the outcome of its recognition alone, and a page whose recognition
\* returned keeps its text and confidence and has no error field.
C19_ProgressSideEffectOnly ==
    pc = "done" =>
        /\ returned.kind = "returned"
        /\ \A j \in Indices :
              returned.result[j + 1] =
                  IF outcome[j].kind = "returned"
                  THEN ExpectedPage(j)
                  ELSE error_result(language, j, outcome[j].exc)

\* C20: for N >= 1 images the pool has min(config.max_workers, N) workers, at most
\* that many recognitions are in progress in any state, no page is recognized
\* twice, and when the call is done every page was recognized exactly once.
C20_BoundedPool ==
    /\ executor.created =>
          /\ executor.max_workers = Min(cfg_max_workers, Len(images))
          /\ Cardinality(Running) <= Min(cfg_max_workers, Len(images))
    /\ \A i \in Indices : engineRuns[i] <= 1
    /\ pc = "done" => \A i \in Indices : engineRuns[i] = 1

\* C20 witness: three pages and two configured workers; two recognitions are in
\* progress while the third page waits in the queue
C20_Witness ==
    /\ Len(images) = 3
    /\ cfg_max_workers = 2
    /\ executor.max_workers = 2
    /\ Cardinality(Running) = 2
    /\ \E i \in Indices : future[i] = "pending"

\* C21: when every engine call eventually returns or raises, the call eventually
\* returns; it returns only after every page task has finished and was collected,
\* and then the pool of this call is shut down with no task pending or running.
C21_TerminationTeardown ==
    /\ <>(pc = "done")
    /\ [](pc = "done" =>
            /\ returned.kind = "returned"
            /\ executor.created =>
                  /\ executor.shutdown
                  /\ collected = Indices
                  /\ \A i \in Indices : future[i] = "finished")

\* C21 witness: two pages for one worker, one of them failed, the call returned
\* and the pool is shut down
C21_Witness ==
    /\ pc = "done"
    /\ Len(images) = 2
    /\ executor.max_workers = 1
    /\ \E i \in Indices : outcome[i].kind = "raised"
    /\ \E i \in Indices : outcome[i].kind = "returned"
    /\ executor.shutdown
    /\ \A i \in Indices : future[i] = "finished"

\* C22: the completed counts passed to print_progress_bar during one call are
\* strictly increasing and each lies between 1 and N, for every completion order
\* and every pattern of page failures.
C22_ProgressMonotonic ==
    /\ \A k \in 1..Len(progress) :
          /\ progress[k].current >= 1
          /\ progress[k].current <= Len(images)
          /\ progress[k].total = Len(images)
    /\ \A k, l \in 1..Len(progress) : k < l => progress[k].current < progress[l].current

\* C22 witness: of three pages the second to complete failed; 1 and 3 were reported
C22_Witness ==
    /\ pc = "done"
    /\ Len(images) = 3
    /\ outcome[yieldOrder[2]].kind = "raised"
    /\ Len(progress) = 2
    /\ progress[1].current = 1
    /\ progress[2].current = 3

\* the pages whose recognition returned
Succeeded == {i \in Indices : outcome[i].kind = "returned"}

-----------------------------------------------------------------------------
(* Claims about _parse_page_range, checked under SpecRange *)

\* decimal notation of an integer, as a user writes it
RECURSIVE nat_str(_)
nat_str(n) ==
    IF n < 10 THEN <<Digits[n + 1]>> ELSE nat_str(n \div 10) \o <<Digits[(n % 10) + 1]>>
int_str(n) == IF n < 0 THEN <<"-">> \o nat_str(0 - n) ELSE nat_str(n)

\* the integers the claims about range strings are stated for
MaxClaimInt == 15
NonNegInts == 0..MaxClaimInt
NegInts == (0 - MaxClaimInt)..(0 - 1)

\* an integer literal without '-': an optional '+' and at least one digit
IsUnsignedInt(s) ==
    LET d == IF s # <<>> /\ Head(s) = "+" THEN Tail(s) ELSE s IN
    d # <<>> /\ \A i \in 1..Len(d) : d[i] \in DigitChars

\* one such integer, or two of them separated by one '-'
IsRangeText(s) ==
    \/ IsUnsignedInt(s)
    \/ \E k \in 1..Len(s) :
          /\ s[k] = "-"
          /\ IsUnsignedInt(SubSeq(s, 1, k - 1))
          /\ IsUnsignedInt(SubSeq(s, k + 1, Len(s)))

\* resolve("0-100", 10) = (1, 10) and resolve("7", 5) = (5, 5)
ResolveExamples ==
    /\ _parse_page_range(Str(<<"0", "-", "1", "0", "0">>), 10) = RangeTuple(1, 10)
    /\ _parse_page_range(Str(<<"7">>), 5) = RangeTuple(5, 5)

\* what the claim says for the text "a-b" and for the text "p"
PairFor(a, b) == RangeTuple(Max(1, a), Min(total_pages, b))
SingleFor(p) == RangeTuple(Max(1, Min(total_pages, p)), Max(1, Min(total_pages, p)))

\* C4: every range the resolver produces satisfies 1 <= start <= end <= totalPages.
C4_RangeInvariant ==
    rangeOut.kind = "tuple" =>
        /\ 1 <= rangeOut.start
        /\ rangeOut.start <= rangeOut.end
        /\ rangeOut.end <= total_pages

\* C5 as stated: for the text "a-b" of any integers a, b the result is
\* (max(1, a), min(totalPages, b)), for the text of any single integer p it is (q, q)
\* with q = max(1, min(totalPages, p)).
C5_ResolveAnyInteger ==
    (rangeOut.kind # "pending" /\ ~page_range.isNone) =>
        /\ \A a, b \in NegInts \cup NonNegInts :
              page_range.s = int_str(a) \o <<"-">> \o int_str(b) => rangeOut = PairFor(a, b)
        /\ \A p \in NegInts \cup NonNegInts :
              page_range.s = int_str(p) => rangeOut = SingleFor(p)
        /\ ResolveExamples

\* C5 amended: the same for integers a, b, p >= 0 written without a sign; the text
\* of a negative integer is read as a range with a missing bound and gives None with
\* a warning; resolve("0-100", 10) = (1, 10) and resolve("7", 5) = (5, 5).
C5_ResolveNonNegative ==
    (rangeOut.kind # "pending" /\ ~page_range.isNone) =>
        /\ \A a, b \in NonNegInts :
              page_range.s = int_str(a) \o <<"-">> \o int_str(b) => rangeOut = PairFor(a, b)
        /\ \A p \in NonNegInts :
              page_range.s = int_str(p) => rangeOut = SingleFor(p)
        /\ \A p \in NegInts :
              page_range.s = int_str(p) => rangeOut = RangeNone(TRUE)
        /\ ResolveExamples

\* C5 witness: "0-5" against 3 pages was clamped at both ends to (1, 3)
C5_Witness ==
    /\ page_range = Str(<<"0", "-", "5">>)
    /\ total_pages = 3
    /\ rangeOut = RangeTuple(1, 3)

\* C6: no exception leaves the resolver: None and "" give None without a warning,
\* every text that is not one integer or two integers separated by '-' gives None
\* with a warning, every other text gives a range, and resolve("5-3", 10) does not throw.
C6_NoErrorEscapes ==
    /\ rangeOut.kind # "raised"
    /\ _parse_page_range(Str(<<"5", "-", "3">>), 10).kind = "tuple"
    /\ rangeOut.kind # "pending" =>
          /\ ~truthy(page_range) => rangeOut = RangeNone(FALSE)
          /\ (truthy(page_range) /\ ~IsRangeText(page_range.s)) => rangeOut = RangeNone(TRUE)
          /\ (truthy(page_range) /\ IsRangeText(page_range.s)) => rangeOut.kind = "tuple"

\* C6 witness: "1-" (a missing bound) was answered with None and a warning
C6_Witness ==
    /\ page_range = Str(<<"1", "-">>)
    /\ rangeOut = RangeNone(TRUE)

-----------------------------------------------------------------------------
(* Claims about the language fallback, checked under SpecLang *)

\* the fallback chain as the claim states it: the requested tag if all its codes
\* are available, else its available codes in requested order, else "eng"
ClaimedLanguage(arg, avail) ==
    LET requested == IF arg = NoneLang THEN self_language ELSE arg
        kept == SelectSeq(requested, LAMBDA c : c \in avail)
    IN  IF kept = requested THEN requested
        ELSE IF kept # <<>> THEN kept
        ELSE <<"eng">>

\* the list get_available_languages gave in this call
AvailableNow == get_available_languages(langAvail, lookupFailed)

\* C7: the language of every engine call and of the result's language field is the
\* requested tag when all its codes are available, else the available requested
\* codes in requested order, else "eng"; "chi_sim+eng" with {"eng"} gives "eng".
C7_LanguageFallback ==
    /\ effective_language(<<"chi_sim", "eng">>, {"eng"}) = <<"eng">>
    /\ pageOut.kind # "pending" =>
          /\ Len(engineLangs) >= 1
          /\ \A k \in 1..Len(engineLangs) :
                engineLangs[k] = ClaimedLanguage(reqLang, AvailableNow)
          /\ pageOut.kind = "returned" =>
                pageOut.result.language = ClaimedLanguage(reqLang, AvailableNow)

\* C7 witness: "chi_sim+eng" was requested with only "eng" available, and the call
\* returned a result recognised with "eng"
C7_Witness ==
    /\ reqLang = <<"chi_sim", "eng">>
    /\ AvailableNow = {"eng"}
    /\ pageOut.kind = "returned"
    /\ pageOut.result.language = <<"eng">>
    /\ engineLangs = << <<"eng">>, <<"eng">> >>

\* C8: every code of the language the engine is called with is in the available set,
\* whatever is requested and whatever is installed.
C8_ValidConfiguration ==
    \A k \in 1..Len(engineLangs) :
        \A i \in 1..Len(engineLangs[k]) : engineLangs[k][i] \in AvailableNow

\* C27: a call for one page returns a result or raises OCRError and nothing
\* else: a failure of image_to_string, of image_to_data or of the conversion of
\* a confidence is wrapped into OCRError, and a failed lookup of the available
\* languages raises nothing: the call goes on to the engine as for an empty
\* language set.
C27_TwoOutcomes ==
    /\ pageOut.kind \in {"pending", "returned", "raised"}
    /\ pageOut.kind = "raised" => pageOut.exc = "OCRError" /\ Len(engineLangs) \in {1, 2}
    /\ pageOut.kind = "returned" =>
          /\ DOMAIN pageOut.result = {"text", "raw_text", "confidence", "language",
                                      "word_count", "char_count"}
          /\ Len(engineLangs) = 2
    /\ lookupFailed /\ pageOut # Pending =>
          /\ engineLangs # <<>>
          /\ \A k \in 1..Len(engineLangs) :
                engineLangs[k] = effective_language(reqLang, {})

\* C27 witness: the lookup of the languages failed, both engine calls were made
\* for the fallback language and the call raised OCRError
C27_Witness ==
    /\ lookupFailed
    /\ reqLang = <<"fra">>
    /\ pageOut.kind = "raised"
    /\ pageOut.exc = "OCRError"
    /\ engineLangs = << <<"eng">>, <<"eng">> >>

-----------------------------------------------------------------------------
(* Claims about the confidence of a page, checked under SpecConfidence *)

\* the token confidences that count: every value above -1
Counted == SelectSeq(confData, LAMBDA c : c # -1)

\* C26: the confidence of a page is the mean (to two decimals) of the token
\* confidences greater than -1, tokens of confidence 0 included and the -1 rows
\* excluded, 0 when there is no such token, and within [0, 100] whenever the
\* token confidences are.
C26_PageConfidence ==
    confPc = "done" =>
        LET n == Len(Counted) IN
        /\ n = 0 => confOut = 0
        /\ n > 0 => 2 * Abs(confOut * n - Hundredths(SumSeq(Counted))) <= n
        /\ (\A k \in 1..n : Counted[k] \in 0..100) =>
              confOut >= 0 /\ confOut <= Hundredths(100)

\* C26 witness: the rows -1, 0 and 100 give the confidence 50
C26_Witness ==
    /\ confPc = "done"
    /\ confData = <<-1, 0, 100>>
    /\ confOut = Hundredths(50)

-----------------------------------------------------------------------------
(* Claims about _clean_text, checked under SpecClean *)

\* C10: cleaning is idempotent, and the cleaned text is the words of the text
\* separated by single spaces: no whitespace at either end, every whitespace run
\* collapsed to one space.
C10_CleanIdempotent ==
    /\ cleanPc \in {"once", "twice"} =>
          /\ cleanOnce = join(<<" ">>, split(rawText))
          /\ cleanOnce # <<>> => ~isspace(cleanOnce[1]) /\ ~isspace(cleanOnce[Len(cleanOnce)])
          /\ \A i \in 1..Len(cleanOnce) : isspace(cleanOnce[i]) =>
                (cleanOnce[i] = " " /\ (i < Len(cleanOnce) => ~isspace(cleanOnce[i + 1])))
    /\ cleanPc = "twice" => cleanTwice = cleanOnce

\* C10 witness: "a \tb " was cleaned to "a b", and cleaning "a b" again gave "a b"
C10_Witness ==
    /\ rawText = <<"a", " ", "\t", "b">>
    /\ cleanPc = "twice"
    /\ cleanOnce = <<"a", " ", "b">>
    /\ cleanTwice = <<"a", " ", "b">>

-----------------------------------------------------------------------------
(* Claims about extract_text_with_layout, checked under SpecLayout *)

\* the words of all text blocks of the returned dict, line after line
RECURSIVE BlockWords(_)
BlockWords(blocks) ==
    IF blocks = <<>> THEN <<>> ELSE Head(blocks) \o BlockWords(Tail(blocks))

\* C11: a token is discarded if and only if its confidence is below the threshold:
\* the words of the result are the tokens whose confidence is equal to or above
\* it, and when every token is below it the text is the empty string.
C11_ThresholdFilter ==
    layOut.kind = "returned" =>
        LET words == BlockWords(layOut.result.text_blocks)
            kept == {k \in 1..Len(layData) : layData[k].conf >= layThreshold}
        IN  /\ Len(words) = Cardinality(kept)
            /\ \A k \in 1..Len(words) : words[k].confidence >= layThreshold
            /\ kept = {} => layOut.result.text = <<>>

\* the tokens that pass the filter of the call, in encounter order
Retained == SelectSeq(layData, LAMBDA t : t.conf > layThreshold)

\* the maximal runs of consecutive tokens with the same line number
RECURSIVE LineRuns(_)
LineRuns(ts) ==
    IF ts = <<>> THEN <<>>
    ELSE LET rest == LineRuns(Tail(ts))
         IN  IF rest # <<>> /\ Head(rest)[1].line_num = Head(ts).line_num
             THEN << <<Head(ts)>> \o Head(rest) >> \o Tail(rest)
             ELSE << <<Head(ts)>> >> \o rest

\* the words of a block with left edge v, in the order of the block
AtLeft(block, v) == SelectSeq(block, LAMBDA w : w.left = v)

\* the words of a run of tokens
RunWords(run) == [k \in 1..Len(run) |-> word_info(run[k])]

\* C23: among the retained tokens, in encounter order, a new line starts exactly
\* when the line number of a token differs from that of the previous retained
\* token: a line number that comes back (1, 2, 1) gives separate lines, and a
\* discarded token, in between or as the very first token, neither splits nor
\* merges lines.
C23_LineGrouping ==
    layOut.kind = "returned" =>
        LET blocks == layOut.result.text_blocks
            runs == LineRuns(Retained)
        IN  /\ Len(blocks) = Len(runs)
            /\ layOut.result.total_blocks = Len(runs)
            /\ \A j \in 1..Len(runs) :
                  /\ Len(blocks[j]) = Len(runs[j])
                  /\ \A v \in TokenLefts : AtLeft(blocks[j], v) = AtLeft(RunWords(runs[j]), v)

\* C23 witness: the line numbers 1, 2, 1 of three retained tokens give three lines
C23_Witness ==
    /\ layOut.kind = "returned"
    /\ Len(layData) = 3
    /\ Len(Retained) = 3
    /\ layData[1].line_num = 1 /\ layData[2].line_num = 2 /\ layData[3].line_num = 1
    /\ layOut.result.total_blocks = 3

\* C24: the tokens of a line are ordered by left edge ascending, tokens with the
\* same left edge keep their encounter order, and they are joined by single
\* spaces; the lines stay in encounter order.
C24_SortedByLeft ==
    layOut.kind = "returned" =>
        LET blocks == layOut.result.text_blocks
            runs == LineRuns(Retained)
        IN  /\ Len(blocks) = Len(runs)
            /\ \A j \in 1..Len(blocks) :
                  /\ \A k, l \in 1..Len(blocks[j]) :
                        k < l => blocks[j][k].left <= blocks[j][l].left
                  /\ \A v \in TokenLefts :
                        AtLeft(blocks[j], v) = AtLeft(RunWords(runs[j]), v)
            /\ \A k \in 1..Len(layOut.result.text) :
                  layOut.result.text[k] = " " =>
                      /\ k > 1 /\ k < Len(layOut.result.text)
                      /\ layOut.result.text[k - 1] \notin {" ", "\n"}
                      /\ layOut.result.text[k + 1] \notin {" ", "\n"}

\* C24 witness: a line met as b (left 1), a (left 0), b (left 0) reads "a b b"
C24_Witness ==
    /\ layOut.kind = "returned"
    /\ Len(layData) = 3
    /\ layData[1].text = <<"b">> /\ layData[1].left = 1
    /\ layData[2].text = <<"a">> /\ layData[2].left = 0
    /\ layData[3].text = <<"b">> /\ layData[3].left = 0
    /\ layOut.result.text = <<"a", " ", "b", " ", "b">>

\* the blocks of the result with at least one word of non-whitespace text
TextBlocks ==
    SelectSeq(layOut.result.text_blocks,
              LAMBDA b : \E k \in 1..Len(b) : \E c \in 1..Len(b[k].text) : ~isspace(b[k].text[c]))

\* C25: a line group without non-whitespace text gives no line, and the lines are
\* joined by one newline: the output has as many lines as there are line groups
\* with a token of non-whitespace text, no empty line, no newline at either end.
C25_EmptyLinesDropped ==
    layOut.kind = "returned" =>
        LET text == layOut.result.text
        IN  /\ TextBlocks = <<>> <=> text = <<>>
            /\ text # <<>> =>
                  /\ Len(split_on(text, "\n")) = Len(TextBlocks)
                  /\ \A k \in 1..Len(split_on(text, "\n")) :
                        strip(split_on(text, "\n")[k]) # <<>>
                  /\ text[1] # "\n"
                  /\ text[Len(text)] # "\n"

\* C25 witness: of the lines "a", " " and "b" the middle one is dropped
C25_Witness ==
    /\ layOut.kind = "returned"
    /\ layOut.result.total_blocks = 3
    /\ Len(TextBlocks) = 2
    /\ layOut.result.text = <<"a", "\n", "b">>

-----------------------------------------------------------------------------
(* Claims about get_ocr_statistics, checked under SpecStats and SpecRate *)

\* C12: on the empty list the call returns, and the summary reads as zero pages,
\* characters, words, average confidence and success rate and as no low-confidence
\* and no error pages; on a non-empty list total_pages is the length of the list.
C12_EmptySummary ==
    /\ statPc \in {"returned", "printed"} /\ statResults # <<>> =>
          statsOut.total_pages = Len(statResults)
    /\ statPc = "printed" /\ statResults = <<>> =>
          statsShown = [total_pages |-> 0, total_characters |-> 0, total_words |-> 0,
                        average_confidence |-> 0, success_rate |-> 0,
                        low_confidence_pages |-> <<>>, error_pages |-> <<>>]

\* C12 witness: the summary of the empty list was printed
C12_Witness ==
    /\ statPc = "printed"
    /\ statResults = <<>>
    /\ statsShown.total_pages = 0
    /\ statsShown.error_pages = <<>>

\* the confidences of the results, error entries included
StatConfs == [k \in 1..Len(statResults) |-> statResults[k].confidence]

\* C13: average_confidence is the mean of the confidence of all results, error
\* pages counting with 0 and every page with the same weight, rounded to two
\* decimals; for confidences in [0, 100] it lies in [0, 100].
C13_AverageConfidence ==
    statPc \in {"returned", "printed"} /\ statResults # <<>> =>
        LET n == Len(statResults)
            avg == statsOut.average_confidence
        IN  /\ 2 * Abs(avg * n - SumSeq(StatConfs)) <= n
            /\ avg >= 0
            /\ avg <= Hundredths(100)

\* C13 witness: an error page and a page of confidence 100 with three characters
\* average to 50
C13_Witness ==
    /\ statPc = "returned"
    /\ Len(statResults) = 2
    /\ "error" \in DOMAIN statResults[1]
    /\ statResults[2].confidence = Hundredths(100)
    /\ statResults[2].char_count = 3
    /\ statsOut.average_confidence = Hundredths(50)

\* a list of page numbers is in result order and lists exactly the pages in S
ListsExactly(pages, S) ==
    /\ \A i, j \in 1..Len(pages) : i < j => pages[i] < pages[j]
    /\ {pages[i] : i \in 1..Len(pages)} = S

\* C14: low_confidence_pages lists, in result order, exactly the pages whose
\* confidence is below the threshold (a page at the threshold is not listed);
\* error_pages lists exactly the pages with an error; a page can be in both.
C14_PageLists ==
    statPc \in {"returned", "printed"} /\ statResults # <<>> =>
        /\ ListsExactly(statsOut.low_confidence_pages,
                        {k \in 1..Len(statResults) :
                            statResults[k].confidence < statThreshold})
        /\ ListsExactly(statsOut.error_pages,
                        {k \in 1..Len(statResults) : "error" \in DOMAIN statResults[k]})

\* C14 witness: page 1 has an error, page 2 is at the threshold, page 3 just below
C14_Witness ==
    /\ statPc = "returned"
    /\ Len(statResults) = 3
    /\ statThreshold = Hundredths(confidence_threshold_default)
    /\ statResults[2].confidence = statThreshold
    /\ statsOut.low_confidence_pages = <<1, 3>>
    /\ statsOut.error_pages = <<1>>

\* the success rate is the share of pages without an error, to the nearest
\* hundredth, between 0 and 100
RateIsRounded ==
    /\ 2 * Abs(rateOut * rateTotal - (rateTotal - rateErrors) * Hundredths(100)) <= rateTotal
    /\ rateOut >= 0
    /\ rateOut <= Hundredths(100)

\* C15: success_rate is (total_pages - len(error_pages)) / total_pages * 100
\* rounded to two decimals, lies in [0, 100], is 100 exactly when no result has an
\* error and 0 exactly when every result has one.
C15_SuccessRate ==
    ratePc = "returned" =>
        /\ RateIsRounded
        /\ rateOut = Hundredths(100) <=> rateErrors = 0
        /\ rateOut = 0 <=> rateErrors = rateTotal

\* C15, amended: the same, with the two equivalences for lists of fewer than
\* 20000 results; in a longer list one page is less than half a hundredth of a
\* percent and is rounded away.
C15_SuccessRateShortLists ==
    ratePc = "returned" =>
        /\ RateIsRounded
        /\ rateTotal < 20000 =>
              /\ rateOut = Hundredths(100) <=> rateErrors = 0
              /\ rateOut = 0 <=> rateErrors = rateTotal

\* C15 witness: one error page among 19999 gives 99.99
C15_Witness ==
    /\ ratePc = "returned"
    /\ rateTotal = 19999
    /\ rateErrors = 1
    /\ rateOut = Hundredths(100) - 1

-----------------------------------------------------------------------------
(* Claims about main, checked under SpecMain *)

\* C16: when a poppler tool or tesseract is not available, main does not get past
\* the construction of the tool: no page is resolved, rasterized, preprocessed or
\* recognized, and main returns 1.
C16_DependencyFailureFatal ==
    (poppler # poppler_tools \/ tesseract # "ok") =>
        /\ steps = <<>>
        /\ mainPc \in {"start", "exit"}
        /\ mainPc = "exit" => exitStatus = 1

\* C16 witness: pdftoppm is missing, the input file exists, main returned 1
C16_Witness ==
    /\ poppler = {"pdfinfo"}
    /\ tesseract = "ok"
    /\ argv.input_pdf = "exists"
    /\ ~argv.list_languages
    /\ mainPc = "exit"
    /\ exitStatus = 1
    /\ steps = <<>>

\* the positions, in ascending order, of the entries of ocr_results that are in keep
PositionsIn(keep) ==
    SelectSeq([k \in 1..Len(mainResults) |-> k], LAMBDA k : k \in keep)

\* the positions of the pages of confidence below thr, and of the error entries
LowPositions(thr) ==
    PositionsIn({k \in 1..Len(mainResults) : mainResults[k].confidence < Hundredths(thr)})
ErrorPositions ==
    PositionsIn({k \in 1..Len(mainResults) : "error" \in DOMAIN mainResults[k]})

\* process_pdf went through to its end in this run
RunReported == mainPc = "exit" /\ exitStatus = 0 /\ steps = ProcessSteps

\* C28: with a resolved page range (s, e) the i-th result belongs to document page
\* s + i - 1 but has page_number i, its position among the rendered pages; the
\* low-confidence and error pages of the statistics are such positions.
C28_PageNumberIsPosition ==
    pageSel.kind = "tuple" /\ mainResults # <<>> =>
        /\ Len(mainResults) = Len(rendered)
        /\ \A i \in 1..Len(mainResults) :
              /\ mainResults[i].page_number = i
              /\ rendered[i] = pageSel.start + i - 1
        /\ RunReported =>
              /\ mainStats.error_pages = ErrorPositions
              /\ \E thr \in {engineThreshold, cfgThreshold} :
                    mainStats.low_confidence_pages = LowPositions(thr)
              /\ reportLow \in {LowPositions(engineThreshold), LowPositions(cfgThreshold)}

\* C28 witness: of three pages the third is selected, its recognition fails, and
\* the statistics report the error on page 1
C28_Witness ==
    /\ RunReported
    /\ docPages = 3
    /\ pageSel.kind = "tuple" /\ pageSel.start = 3 /\ pageSel.end = 3
    /\ rendered = <<3>>
    /\ mainResults[1].page_number = 1
    /\ mainStats.error_pages = <<1>>
    /\ mainStats.low_confidence_pages = <<1>>

\* C29: the engine takes its threshold from the configuration when it is
\* constructed, main writes the --confidence value into the configuration after
\* that: the statistics use the threshold from before the override, the summary
\* report the overridden one.
C29_ThresholdReadOnce ==
    /\ mainPc \in {"constructed", "process"} \/ steps # <<>> =>
          engineThreshold = confidence_threshold_default
    /\ mainPc = "process" \/ steps # <<>> => cfgThreshold = argv.confidence
    /\ RunReported =>
          /\ mainStats.low_confidence_pages = LowPositions(confidence_threshold_default)
          /\ reportLow = LowPositions(argv.confidence)

\* C29 witness: with --confidence 80 a page of confidence 70 is a low-confidence
\* page of the summary report and none of the statistics
C29_Witness ==
    /\ RunReported
    /\ argv.confidence = confidence_threshold_default + 20
    /\ Len(mainResults) = 1
    /\ mainResults[1].confidence = Hundredths(confidence_threshold_default + 10)
    /\ mainStats.low_confidence_pages = <<>>
    /\ reportLow = <<1>>

-----------------------------------------------------------------------------
(* Claims about optimize_image_for_ocr, checked under SpecOptimize *)

\* C17: the call always returns an image, and when a step raises, the grayscale
\* conversion or the later enlargement, the image returned is the argument
\* unchanged, with its mode and its size.
C17_OptimizeNeverFails ==
    /\ optPc \notin {"call", "idle"} => optOut # NoImage
    /\ optPc \in {"convert raised", "resize raised"} => optOut = optImage

====
